---- MODULE Spec2Model ----
(***************************************************************************)
(* A model of the playlist pipeline of EverySoundData                      *)
(* (src/genre_playlist_scrape.py), of the retried fetcher it shares with   *)
(* src/genre_songs_scrape.py, of the preview pipeline of that file and of  *)
(* the catalog parser (src/scrape.py).                                     *)
(*                                                                         *)
(* Python strings are sequences of one-character strings, so that the      *)
(* regular expressions and the string methods of the source are computed   *)
(* and not assumed.  An optional value (None, a missing dictionary key) is *)
(* a sequence of length at most one: <<>> is absent, <<x>> is x.           *)
(***************************************************************************)
EXTENDS Integers, Sequences, FiniteSets, TLC

None == <<>>
Some(x) == <<x>>

(***************************************************************************)
(* Strings                                                                 *)
(***************************************************************************)
Letters == {"a", "b", "c", "d", "e", "f", "g", "h", "i", "j", "k", "l", "m",
            "n", "o", "p", "q", "r", "s", "t", "u", "v", "w", "x", "y", "z"}
Digits == {"0", "1", "2", "3", "4", "5", "6", "7", "8", "9"}
DigitSeq == <<"0", "1", "2", "3", "4", "5", "6", "7", "8", "9">>
Uppers == <<"A", "B", "C", "D", "E", "F", "G", "H", "I", "J", "K", "L", "M",
            "N", "O", "P", "Q", "R", "S", "T", "U", "V", "W", "X", "Y", "Z">>
Lowers == <<"a", "b", "c", "d", "e", "f", "g", "h", "i", "j", "k", "l", "m",
            "n", "o", "p", "q", "r", "s", "t", "u", "v", "w", "x", "y", "z">>
\* \w of the re module, on the characters the model uses
WordChars == Letters \cup {Uppers[k] : k \in 1..Len(Uppers)} \cup Digits \cup {"_"}

Min(S) == CHOOSE x \in S : \A y \in S : x <= y

\* s.lower()
Lower(c) ==
    IF \E k \in 1..Len(Uppers) : Uppers[k] = c
    THEN Lowers[CHOOSE k \in 1..Len(Uppers) : Uppers[k] = c]
    ELSE c
LowerStr(s) == [k \in 1..Len(s) |-> Lower(s[k])]

\* s.startswith(p)
StartsWith(s, p) == Len(s) >= Len(p) /\ SubSeq(s, 1, Len(p)) = p

\* p occurs in s at position i
OccursAt(s, p, i) == i >= 1 /\ i + Len(p) - 1 <= Len(s) /\ SubSeq(s, i, i + Len(p) - 1) = p

\* s.lstrip(chars)
RECURSIVE LStrip(_, _)
LStrip(s, chars) ==
    IF s # <<>> /\ Head(s) \in chars THEN LStrip(Tail(s), chars) ELSE s

\* s.rstrip(chars)
RECURSIVE RStrip(_, _)
RStrip(s, chars) ==
    IF s # <<>> /\ s[Len(s)] \in chars THEN RStrip(SubSeq(s, 1, Len(s) - 1), chars) ELSE s

\* s.strip() : white space at both ends
Strip(s) == RStrip(LStrip(s, {" "}), {" "})

\* sep.join(parts)
RECURSIVE Join(_, _)
Join(sep, parts) ==
    IF parts = <<>> THEN <<>>
    ELSE IF Len(parts) = 1 THEN parts[1]
    ELSE parts[1] \o sep \o Join(sep, Tail(parts))

BASE_URL == <<"h", "t", "t", "p", "s", ":", "/", "/", "e", "v", "e", "r", "y",
              "n", "o", "i", "s", "e", ".", "c", "o", "m", "/">>
HttpPrefix == <<"h", "t", "t", "p">>
SlugPrefix == <<"e", "n", "g", "e", "n", "r", "e", "m", "a", "p", "-">>
SlugSuffix == <<".", "h", "t", "m", "l">>

(***************************************************************************)
(* SLUG_RE = engenremap-([^.]+)\.html, searched in the href.  A match at i *)
(* is the prefix at i, then one or more characters other than a dot up to  *)
(* j, then ".html": the group cannot contain a dot, so j is the position   *)
(* before the first dot after the prefix.                                  *)
(***************************************************************************)
SlugMatchAt(href, i, j) ==
    /\ OccursAt(href, SlugPrefix, i)
    /\ j >= i + Len(SlugPrefix)
    /\ \A k \in (i + Len(SlugPrefix))..j : href[k] # "."
    /\ OccursAt(href, SlugSuffix, j + 1)

SlugMatches(href) ==
    UNION { {<<i, j>> : j \in {e \in i..Len(href) : SlugMatchAt(href, i, e)}} :
            i \in {b \in 1..Len(href) : OccursAt(href, SlugPrefix, b)} }

\* m.group(1) of the leftmost match, or None
SLUG_RE(href) ==
    LET ms == SlugMatches(href)
    IN  IF ms = {} THEN None
        ELSE LET m == CHOOSE x \in ms : \A y \in ms : x[1] <= y[1]
             IN  Some(SubSeq(href, m[1] + Len(SlugPrefix), m[2]))

\* re.sub(r"[^\w\- ]+", "_", name): each run of other characters becomes one "_"
RECURSIVE SubOther(_, _)
SubOther(name, inRun) ==
    IF name = <<>> THEN <<>>
    ELSE IF Head(name) \in WordChars \cup {"-", " "}
         THEN <<Head(name)>> \o SubOther(Tail(name), FALSE)
         ELSE (IF inRun THEN <<>> ELSE <<"_">>) \o SubOther(Tail(name), TRUE)

ReplaceSpaces(s) == [k \in 1..Len(s) |-> IF s[k] = " " THEN "_" ELSE s[k]]

sanitize_filename(name) == ReplaceSpaces(Strip(SubOther(name, FALSE)))

\* slug_from_href without the pattern: the name alone
SlugFromName(href, genre_name) == sanitize_filename(genre_name)

slug_from_href(href, genre_name) ==
    LET m == SLUG_RE(href)
    IN  IF m # None THEN m[1] ELSE sanitize_filename(genre_name)

\* page_url of worker
page_url(href) ==
    IF StartsWith(href, HttpPrefix) THEN href ELSE BASE_URL \o LStrip(href, {"/"})

(***************************************************************************)
(* The upstream data.  A track is the dictionary the playlist API returns: *)
(* each key may be missing.  external_ids, when present, is a dictionary   *)
(* whose isrc may be missing.                                              *)
(***************************************************************************)
Id(c, d) == <<c, d>>

Track(name, artists, external_ids) ==
    [name |-> name, artists |-> artists, external_ids |-> external_ids]

Artist(n) == [name |-> n]

\* complete tracks with an ISRC
TrackOk(d) == Track(Some(Id("t", d)), Some(<<Artist(Id("x", d))>>), Some([isrc |-> Some(Id("i", d))]))
\* two artists
TrackDuo(d) == Track(Some(Id("t", d)), Some(<<Artist(Id("x", d)), Artist(Id("y", d))>>),
                     Some([isrc |-> Some(Id("i", d))]))
\* an ISRC and nothing else
TrackAnon(d) == Track(None, None, Some([isrc |-> Some(Id("i", d))]))
\* no external_ids key
TrackNoExt(d) == Track(Some(Id("t", d)), Some(<<Artist(Id("x", d))>>), None)
\* external_ids without isrc
TrackNoIsrc(d) == Track(Some(Id("t", d)), Some(<<Artist(Id("x", d))>>), Some([isrc |-> None]))
\* isrc is the empty string
TrackEmptyIsrc(d) == Track(Some(Id("t", d)), Some(<<Artist(Id("x", d))>>), Some([isrc |-> Some(<<>>)]))
\* neither an ISRC nor an artists key
TrackBare(d) == Track(Some(Id("t", d)), None, None)

Item(track) == [track |-> track]
ItemNoTrack == Item(None)
\* the track is a dictionary without any key
ItemEmptyTrack == Item(Some(Track(None, None, None)))

\* A PlaylistPage: its items, its continuation token and where it starts.
Page(offset, items, next) == [offset |-> offset, items |-> items, next |-> next]

(***************************************************************************)
(* A playlist of the API is its chain of item lists, and the call (1 is    *)
(* the initial playlist_items, k > 1 the k-1st next) that fails, if any:   *)
(* spotipy raises on an HTTP error and returns None on a body that is not  *)
(* JSON.                                                                   *)
(***************************************************************************)
Playlist(chain, failAt, how) == [chain |-> chain, failAt |-> failAt, how |-> how]

\* The longest chain of the model's playlists.
MaxPages == 3

\* The items of the page number k of the long playlist: the item shapes in turn.
LongItems(k) ==
    CASE k % 3 = 1 -> <<Item(Some(TrackOk("1"))), Item(Some(TrackNoExt("2"))), ItemNoTrack>>
      [] k % 3 = 2 -> <<ItemEmptyTrack, Item(Some(TrackNoIsrc("3"))),
                        Item(Some(TrackEmptyIsrc("4")))>>
      [] OTHER -> <<Item(Some(TrackAnon("5"))), Item(Some(TrackDuo("6")))>>

PlaylistOf(pid) ==
    CASE pid = "p1" -> Playlist([k \in 1..MaxPages |-> LongItems(k)], 0, "none")
      [] pid = "p2" -> Playlist(<< <<Item(Some(TrackNoIsrc("3"))), ItemNoTrack>> >>, 0, "none")
      [] pid = "p3" -> Playlist(<< <<Item(Some(TrackOk("7")))>>, <<Item(Some(TrackOk("8")))>> >>, 2, "raise")
      [] pid = "p4" -> Playlist(<< <<Item(Some(TrackOk("7")))>> >>, 1, "raise")
      [] pid = "p5" -> Playlist(<< <<Item(Some(TrackOk("9")))>>, <<Item(Some(TrackOk("8")))>> >>, 2, "none")
      [] pid = "p6" -> Playlist(<< <<Item(Some(TrackOk("7"))), Item(Some(TrackBare("2"))),
                                     Item(Some(TrackOk("8")))>> >>, 0, "none")
      [] pid = "p7" -> Playlist(<< <<Item(Some(TrackOk("7")))>> >>, 1, "none")
      [] pid = "p8" -> Playlist(<< <<Item(Some(TrackDuo("8")))>> >>, 0, "none")
      [] OTHER -> Playlist(<< >>, 1, "raise")

\* The page number k of a playlist, as the API returns it.
PageAt(pid, k) ==
    LET pl == PlaylistOf(pid)
    IN  Page(k, pl.chain[k], IF k < Len(pl.chain) THEN Some(k + 1) ELSE None)

\* What the call number k on the playlist gives: a page, None, or an error.
ApiCall(pid, k) ==
    LET pl == PlaylistOf(pid)
    IN  IF pl.failAt = k \/ k > Len(pl.chain)
        THEN [raised |-> (pl.how = "raise" \/ k > Len(pl.chain)), page |-> None]
        ELSE [raised |-> FALSE, page |-> Some(PageAt(pid, k))]

(***************************************************************************)
(* The genre-map site.  A genre page is the list of its anchors, each the  *)
(* playlist id its href carries, if it is a playlist link.  A URL answers  *)
(* the attempts of one fetch in turn: "ok", "timeout" (a transport error)  *)
(* or "status" (raise_for_status on a non-2xx answer).                     *)
(***************************************************************************)
Genre(name, href) == [name |-> name, href |-> href]

MapHref(c) == SlugPrefix \o <<c>> \o SlugSuffix

GenreA == Genre(<<"a">>, MapHref("a"))
GenreB == Genre(<<"b">>, <<"/">> \o MapHref("b"))
\* the map id of GenreA under another path
GenreC == Genre(<<"c">>, <<"q", "/">> \o MapHref("a"))
\* no map id in the href: the slug comes from the name
GenreD == Genre(<<"r", " ", "&", " ", "b">>, <<"d", ".", "h", "t", "m", "l">>)
\* no href
GenreE == Genre(<<"e">>, <<>>)
GenreF == Genre(<<"f">>, HttpPrefix \o <<":", "/", "/", "m", "/">> \o MapHref("f"))
GenreG == Genre(<<"g">>, MapHref("g"))
GenreH == Genre(<<"h">>, MapHref("h"))
GenreI == Genre(<<"i">>, MapHref("i"))
GenreJ == Genre(<<"j">>, MapHref("j"))
GenreM == Genre(<<"m">>, MapHref("m"))
\* the map id of GenreA under a third path
GenreZ == Genre(<<"z">>, <<"z", "/">> \o MapHref("a"))
\* the map id of GenreA under a fourth path: its playlist has one record, as that
\* of GenreC has, of fewer characters
GenreY == Genre(<<"y">>, <<"y", "/">> \o MapHref("a"))

WebPage(script, anchors) == [script |-> script, anchors |-> anchors]

Web(url) ==
    CASE url = page_url(GenreA.href) -> WebPage(<<"ok">>, <<None, Some("p1"), Some("p2")>>)
      [] url = page_url(GenreB.href) -> WebPage(<<"timeout", "status", "ok">>, <<Some("p2")>>)
      [] url = page_url(GenreC.href) -> WebPage(<<"ok">>, <<Some("p8")>>)
      [] url = page_url(GenreD.href) -> WebPage(<<"status", "ok">>, <<Some("p5")>>)
      [] url = page_url(GenreF.href) -> WebPage(<<"timeout", "timeout", "status", "ok">>, <<Some("p1")>>)
      [] url = page_url(GenreG.href) -> WebPage(<<"ok">>, <<None>>)
      [] url = page_url(GenreH.href) -> WebPage(<<"ok">>, <<Some("p4")>>)
      [] url = page_url(GenreI.href) -> WebPage(<<"timeout", "status", "ok">>, <<Some("p6")>>)
      [] url = page_url(GenreJ.href) -> WebPage(<<"ok">>, <<Some("p7")>>)
      [] url = page_url(GenreM.href) -> WebPage(<<"ok">>, <<Some("p3")>>)
      [] url = page_url(GenreZ.href) -> WebPage(<<"ok">>, <<Some("p2")>>)
      [] url = page_url(GenreY.href) -> WebPage(<<"ok">>, <<Some("p5")>>)
      [] OTHER -> WebPage(<<>>, <<>>)

\* The catalogs of the model: the genres of genres.json in their stored order.
Catalogs ==
    { <<GenreA, GenreB>>,
      <<GenreA, GenreC>>,
      <<GenreZ, GenreC>>,
      <<GenreC, GenreY>>,
      <<GenreM, GenreA>>,
      <<GenreI, GenreB>>,
      <<GenreE, GenreF, GenreG>>,
      <<GenreH, GenreJ, GenreD>>,
      <<GenreC, GenreB, GenreD>> }

(***************************************************************************)
(* fetch_url: one call is the record of its arguments and of its loop.     *)
(* script is what the server answers to the attempts in turn, text the     *)
(* body of a good answer.                                                  *)
(***************************************************************************)
DefaultRetries == 3
DefaultBackoff == 1

Pow2(n) == 2 ^ n

\* The call at its first line; range(retries) is empty for retries <= 0.
FetchCall(script, text, retries, backoff) ==
    [script |-> script, text |-> text, retries |-> retries, backoff |-> backoff,
     attempt |-> 0, gets |-> 0, slept |-> 0,
     returned |-> (retries <= 0), raised |-> FALSE, result |-> None]

\* What session.get and raise_for_status give at the attempt number k (from 0).
Answer(script, k) == IF k + 1 <= Len(script) THEN script[k + 1] ELSE "timeout"

\* FetchStep with the loop bound off by one: range(retries + 1)
FetchStepOneMore(f) ==
    IF Answer(f.script, f.attempt) = "ok"
    THEN [f EXCEPT !.gets = @ + 1, !.returned = TRUE, !.result = Some(f.text)]
    ELSE [f EXCEPT !.gets = @ + 1,
                   !.slept = @ + f.backoff * Pow2(f.attempt),
                   !.attempt = @ + 1,
                   !.returned = (f.attempt + 1 > f.retries)]

\* FetchStep without the wait after the last failed attempt
FetchStepNoLastWait(f) ==
    IF Answer(f.script, f.attempt) = "ok"
    THEN [f EXCEPT !.gets = @ + 1, !.returned = TRUE, !.result = Some(f.text)]
    ELSE [f EXCEPT !.gets = @ + 1,
                   !.slept = IF f.attempt + 1 >= f.retries THEN @
                             ELSE @ + f.backoff * Pow2(f.attempt),
                   !.attempt = @ + 1,
                   !.returned = (f.attempt + 1 >= f.retries)]

\* One iteration of the loop of fetch_url, and the return that follows the last.
FetchStep(f) ==
    IF Answer(f.script, f.attempt) = "ok"
    THEN [f EXCEPT !.gets = @ + 1, !.returned = TRUE, !.result = Some(f.text)]
    ELSE [f EXCEPT !.gets = @ + 1,
                   !.slept = @ + f.backoff * Pow2(f.attempt),
                   !.attempt = @ + 1,
                   !.returned = (f.attempt + 1 >= f.retries)]

(***************************************************************************)
(* The pure parts of scrape_playlists.                                     *)
(***************************************************************************)
\* soup.find("a", href=PLAYLIST_RE) and the id of its href
RECURSIVE get_playlist_id_from_genre_page(_)
get_playlist_id_from_genre_page(anchors) ==
    IF anchors = <<>> THEN None
    ELSE IF Head(anchors) # None THEN Head(anchors)
    ELSE get_playlist_id_from_genre_page(Tail(anchors))

ArtistNames(artists) == [k \in 1..Len(artists) |-> artists[k].name]

CommaSpace == <<",", " ">>

build_song_record(track) ==
    [title |-> IF track.name = None THEN <<>> ELSE track.name[1],
     artist |-> Join(CommaSpace, ArtistNames(IF track.artists = None THEN <<>> ELSE track.artists[1])),
     isrc |-> IF track.external_ids = None \/ track.external_ids[1].isrc = None
              THEN <<>> ELSE track.external_ids[1].isrc[1]]

\* tr.get("external_ids", {}).get("isrc")
IsrcCode(tr) == IF tr.external_ids = None THEN None ELSE tr.external_ids[1].isrc

\* not isrc_code: None or the empty string
NoIsrc(tr) == IsrcCode(tr) = None \/ IsrcCode(tr) = Some(<<>>)

\* not tr: the item has no track, or its track is the empty dictionary
NoTrack(tr) == tr = None \/ tr[1] = Track(None, None, None)

\* The for loop over the items of a page: the songs appended, and whether the
\* loop raised (tr["artists"] of the warning, on a track without the key).
RECURSIVE ConsumeItems(_, _)
ConsumeItems(items, songs) ==
    IF items = <<>> THEN [raised |-> FALSE, songs |-> songs]
    ELSE LET tr == Head(items).track
         IN  IF NoTrack(tr) THEN ConsumeItems(Tail(items), songs)
             ELSE IF NoIsrc(tr[1])
                  THEN IF tr[1].artists = None
                       THEN [raised |-> TRUE, songs |-> songs]
                       ELSE ConsumeItems(Tail(items), songs)
                  ELSE ConsumeItems(Tail(items), Append(songs, build_song_record(tr[1])))

\* Continuation that never follows a token: one page is read
ContinuationNever(page) == None

\* pl_page["next"]: the call that gives the next page, if there is one
Continuation(page) == page.next

\* ArtifactExists without the resume check
ArtifactExistsNever(dir, slug) == FALSE

\* outfile.exists() of the work list
ArtifactExists(dir, slug) == slug \in DOMAIN dir

\* if songs_local: of the artifact write
HasSongs(songs) == songs # <<>>

\* BuildTasks with the limit on the entries seen, skipped or not
RECURSIVE BuildTasksSeen(_, _, _, _, _)
BuildTasksSeen(catalog, k, lim, dir, acc) ==
    IF k > Len(catalog) THEN acc
    ELSE IF lim # None /\ k - 1 >= lim[1] THEN acc
    ELSE LET href == catalog[k].href
             slug == slug_from_href(href, catalog[k].name)
         IN  IF href = <<>> THEN BuildTasksSeen(catalog, k + 1, lim, dir, acc)
             ELSE IF ArtifactExists(dir, slug) THEN BuildTasksSeen(catalog, k + 1, lim, dir, acc)
             ELSE BuildTasksSeen(catalog, k + 1, lim, dir,
                                 Append(acc, [name |-> catalog[k].name, href |-> href, slug |-> slug]))

\* The loop that builds the work list, from the catalog entry number k on.
RECURSIVE BuildTasks(_, _, _, _, _)
BuildTasks(catalog, k, lim, dir, acc) ==
    IF k > Len(catalog) THEN acc
    ELSE IF lim # None /\ Len(acc) >= lim[1] THEN acc
    ELSE LET href == catalog[k].href
             slug == slug_from_href(href, catalog[k].name)
         IN  IF href = <<>> THEN BuildTasks(catalog, k + 1, lim, dir, acc)
             ELSE IF ArtifactExists(dir, slug) THEN BuildTasks(catalog, k + 1, lim, dir, acc)
             ELSE BuildTasks(catalog, k + 1, lim, dir,
                             Append(acc, [name |-> catalog[k].name, href |-> href, slug |-> slug]))

(***************************************************************************)
(* The state.                                                              *)
(***************************************************************************)
VARIABLES
    genres,       \* genres.json: the catalog, in its stored order
    limit,        \* --limit: None or Some(n)
    debug,        \* --debug
    workers,      \* --workers
    creds,        \* whether the environment holds the client id and secret
    playlistDir,  \* PLAYLIST_DIR: slug -> the text of <slug>.json
    debugDir,     \* DEBUG_DIR: <<slug, n>> -> the text of <slug>_page<n>.json
    phase,        \* of scrape_playlists: idle, running, done, failed (it raised)
    run,          \* the calls of scrape_playlists so far
    startDir,     \* PLAYLIST_DIR when the current call began
    tasks,        \* the work list of the current call
    units,        \* the call of worker on each task
    session,      \* the requests.Session of the current call
    lastRun,      \* the work list and the units of the call before the current one
    fc,           \* a call of fetch_url on its own
    pg,           \* process_genres of genre_songs_scrape.py: its calls and OUTPUT_DIR
    pure          \* the calls made of the functions without state, with their results

vars == <<genres, limit, debug, workers, creds, playlistDir, debugDir, phase, run,
          startDir, tasks, units, session, lastRun, fc, pg, pure>>

config == <<genres, limit, debug, workers, creds>>

\* Bounds of the model: calls of scrape_playlists, --limit, retries of fetch_url
MaxRuns == 2
MaxLimit == 2
MaxRetries == 4

\* workers: int = 4
DefaultWorkers == 4

WorkerCounts == {1, 2, DefaultWorkers}

NoFiles == [x \in {} |-> <<>>]

(***************************************************************************)
(* A file is the text it holds, a sequence of characters.  json.dump(doc,  *)
(* fp, ensure_ascii=False, indent=2) gives the text of doc: the members of *)
(* a list or of a dictionary that is not empty each on a line of their     *)
(* own, two spaces deeper than what holds them.  The texts of the model    *)
(* are shorter than the buffer of the file object, so a text reaches the   *)
(* file in one write, at offset 0, when the with block closes the file;    *)
(* open(path, "w") has created or emptied the file before.  Other threads  *)
(* run in between.                                                         *)
(***************************************************************************)
NewLine == <<"\n">>
Indent(level) == [k \in 1..level |-> " "]

\* the characters json escapes in a string of the model: the quote, the backslash
RECURSIVE Escape(_)
Escape(s) ==
    IF s = <<>> THEN <<>>
    ELSE (IF Head(s) \in {"\"", "\\"} THEN <<"\\", Head(s)>> ELSE <<Head(s)>>) \o Escape(Tail(s))

DumpStr(s) == <<"\"">> \o Escape(s) \o <<"\"">>

RECURSIVE DumpInt(_)
DumpInt(n) ==
    IF n < 10 THEN <<DigitSeq[n + 1]>> ELSE DumpInt(n \div 10) \o <<DigitSeq[(n % 10) + 1]>>

JsonNull == <<"n", "u", "l", "l">>

\* the members of a container at a level, each given as its text
Members(texts, level) ==
    NewLine \o Join(<<",">> \o NewLine, [k \in 1..Len(texts) |-> Indent(level + 2) \o texts[k]])
            \o NewLine \o Indent(level)

\* a list, of the texts of its elements
DumpList(texts, level) ==
    IF texts = <<>> THEN <<"[", "]">> ELSE <<"[">> \o Members(texts, level) \o <<"]">>

\* a key of a dictionary with the text of its value
Member(key, text) == DumpStr(key) \o <<":", " ">> \o text

\* a dictionary, of the texts of its members
DumpDict(members, level) ==
    IF members = <<>> THEN <<"{", "}">> ELSE <<"{">> \o Members(members, level) \o <<"}">>

KeyTitle == <<"t", "i", "t", "l", "e">>
KeyArtist == <<"a", "r", "t", "i", "s", "t">>
KeyIsrc == <<"i", "s", "r", "c">>
KeyName == <<"n", "a", "m", "e">>
KeyArtists == <<"a", "r", "t", "i", "s", "t", "s">>
KeyExternalIds == <<"e", "x", "t", "e", "r", "n", "a", "l", "_", "i", "d", "s">>
KeyTrack == <<"t", "r", "a", "c", "k">>
KeyOffset == <<"o", "f", "f", "s", "e", "t">>
KeyItems == <<"i", "t", "e", "m", "s">>
KeyNext == <<"n", "e", "x", "t">>

\* a song record, the keys in the order build_song_record gives them
DumpSong(song, level) ==
    DumpDict(<<Member(KeyTitle, DumpStr(song.title)),
               Member(KeyArtist, DumpStr(song.artist)),
               Member(KeyIsrc, DumpStr(song.isrc))>>, level)

\* json.dump(songs_local, of, ensure_ascii=False, indent=2)
SongsText(songs) == DumpList([k \in 1..Len(songs) |-> DumpSong(songs[k], 2)], 0)

\* a track of the API: the keys it has
DumpTrack(tr, level) ==
    DumpDict(
        (IF tr.name = None THEN <<>> ELSE <<Member(KeyName, DumpStr(tr.name[1]))>>)
        \o (IF tr.artists = None THEN <<>>
            ELSE <<Member(KeyArtists,
                          DumpList([k \in 1..Len(tr.artists[1]) |->
                                       DumpDict(<<Member(KeyName, DumpStr(tr.artists[1][k].name))>>,
                                                level + 4)],
                                   level + 2))>>)
        \o (IF tr.external_ids = None THEN <<>>
            ELSE <<Member(KeyExternalIds,
                          DumpDict(IF tr.external_ids[1].isrc = None THEN <<>>
                                   ELSE <<Member(KeyIsrc, DumpStr(tr.external_ids[1].isrc[1]))>>,
                                   level + 2))>>),
        level)

DumpItem(item, level) ==
    DumpDict(<<Member(KeyTrack, IF item.track = None THEN JsonNull
                                ELSE DumpTrack(item.track[1], level + 2))>>, level)

\* json.dump(pl_page, df, ensure_ascii=False, indent=2): of a page, or of None
PageText(pl_page) ==
    IF pl_page = None THEN JsonNull
    ELSE DumpDict(<<Member(KeyOffset, DumpInt(pl_page[1].offset)),
                    Member(KeyItems,
                           DumpList([k \in 1..Len(pl_page[1].items) |->
                                        DumpItem(pl_page[1].items[k], 4)], 2)),
                    Member(KeyNext, IF pl_page[1].next = None THEN JsonNull
                                    ELSE DumpInt(pl_page[1].next[1]))>>, 0)

\* path.open("w")
Truncate(dir, path) == (path :> <<>>) @@ dir

\* the write of a text at offset 0 of what the file holds
WriteAt0(text, old) == text \o SubSeq(old, Len(text) + 1, Len(old))

\* the write of the buffer when the file is closed
Flush(dir, path, text) == (path :> WriteAt0(text, dir[path])) @@ dir

\* An artifact of an earlier run, of songs the site no longer lists.
OldSongs == <<[title |-> Id("t", "0"), artist |-> Id("x", "0"), isrc |-> Id("i", "0")]>>

InitialDirs == {NoFiles, (<<"a">> :> SongsText(OldSongs))}

\* A debug artifact of an earlier run, of a playlist that was longer then.
InitialDebugDirs == {NoFiles, (<<(<<"a">>), MaxPages>> :> PageText(Some(Page(0, <<>>, None))))}

Limits == {None} \cup {Some(n) : n \in 0..MaxLimit}

\* worker before its first line
NewUnit ==
    [pc |-> "queued", sess |-> None, client |-> None, f |-> None, html |-> None,
     pid |-> None, pl_page |-> None, songs_local |-> <<>>, page_idx |-> 1, calls |-> <<>>]

Idle ==
    /\ phase = "idle"
    /\ run = 0
    /\ startDir = NoFiles
    /\ tasks = <<>>
    /\ units = <<>>
    /\ session = None
    /\ lastRun = [tasks |-> <<>>, units |-> <<>>]

Init ==
    /\ genres \in Catalogs
    /\ limit \in Limits
    /\ debug \in BOOLEAN
    /\ workers \in WorkerCounts
    /\ creds \in BOOLEAN
    /\ playlistDir \in InitialDirs
    /\ debugDir \in InitialDebugDirs
    /\ Idle
    /\ fc = None
    /\ pg = None
    /\ pure = <<>>

(***************************************************************************)
(* scrape_playlists up to the dispatch: the work list and the session.     *)
(***************************************************************************)
StartRun ==
    /\ phase \in {"idle", "done", "failed"}
    /\ run < MaxRuns
    /\ run' = run + 1
    /\ startDir' = playlistDir
    /\ tasks' = BuildTasks(genres, 1, limit, playlistDir, <<>>)
    /\ units' = [i \in 1..Len(tasks') |-> NewUnit]
    /\ session' = Some([kind |-> "session", run |-> run + 1, unit |-> 0])
    /\ lastRun' = [tasks |-> tasks, units |-> units]
    /\ phase' = "running"
    /\ UNCHANGED <<config, playlistDir, debugDir, fc, pg, pure>>

\* if workers <= 1 or not tasks
Sequential == workers <= 1 \/ tasks = <<>>

Finished(u) == u.pc \in {"returned", "raised"}
Active(u) == u.pc \notin {"queued", "returned", "raised"}

\* The task a free thread of the pool takes next, and whether a thread is free;
\* the for loop of the sequential mode calls worker on a task when the calls
\* before it have returned.
MayStart(i) ==
    /\ units[i].pc = "queued"
    /\ \A j \in 1..(i - 1) : units[j].pc # "queued"
    /\ IF Sequential
       THEN \A j \in 1..(i - 1) : units[j].pc = "returned"
       ELSE Cardinality({j \in 1..Len(units) : Active(units[j])}) < workers

\* The unit number i goes on as u.  An exception that leaves worker leaves the
\* for loop of the sequential mode and scrape_playlists with it; in the pool it
\* is kept in the future.
Step(i, u) ==
    /\ units' = [units EXCEPT ![i] = u]
    /\ phase' = IF Sequential /\ u.pc = "raised" THEN "failed" ELSE phase
    /\ UNCHANGED <<config, run, startDir, tasks, session, lastRun, fc, pg, pure>>

\* worker, lines 120-122: the page URL and the call of fetch_url
Start(i) ==
    /\ phase = "running"
    /\ MayStart(i)
    /\ LET url == page_url(tasks[i].href)
           f == FetchCall(Web(url).script, Web(url).anchors, DefaultRetries, DefaultBackoff)
       IN  Step(i, [units[i] EXCEPT !.pc = "fetch", !.sess = session, !.f = Some(f)])
    /\ UNCHANGED <<playlistDir, debugDir>>

\* one attempt of fetch_url, and after the last one lines 123-125
FetchAttempt(i) ==
    /\ phase = "running"
    /\ units[i].pc = "fetch"
    /\ LET f == IF units[i].f[1].returned THEN units[i].f[1] ELSE FetchStep(units[i].f[1])
       IN  Step(i, [units[i] EXCEPT !.f = Some(f),
                                    !.html = f.result,
                                    !.pc = IF ~f.returned THEN "fetch"
                                           ELSE IF f.result = None THEN "returned"
                                           ELSE "resolve"])
    /\ UNCHANGED <<playlistDir, debugDir>>

\* lines 126-129
Resolve(i) ==
    /\ phase = "running"
    /\ units[i].pc = "resolve"
    /\ LET id == get_playlist_id_from_genre_page(units[i].html[1])
       IN  Step(i, [units[i] EXCEPT !.pid = id,
                                    !.pc = IF id = None THEN "returned" ELSE "connect"])
    /\ UNCHANGED <<playlistDir, debugDir>>

\* where the while loop goes with pl_page, and after it
LoopOrLeave(page, songs) ==
    IF page # None THEN "consume"
    ELSE IF debug /\ HasSongs(songs) THEN "debuglast"
    ELSE "write"

\* AfterInitial without the try of line 133
AfterInitialUncaught(call) ==
    IF call.raised THEN "raised" ELSE LoopOrLeave(call.page, <<>>)

\* lines 133-141: the except of the initial playlist_items returns, else the loop
AfterInitial(call) ==
    IF call.raised THEN "returned" ELSE LoopOrLeave(call.page, <<>>)

\* lines 131-141: create_spotify_client and the initial playlist_items
Connect(i) ==
    /\ phase = "running"
    /\ units[i].pc = "connect"
    /\ LET call == ApiCall(units[i].pid[1], 1)
       IN  IF ~creds
           THEN Step(i, [units[i] EXCEPT !.pc = "raised"])
           ELSE Step(i, [units[i] EXCEPT
                    !.client = Some([kind |-> "client", run |-> run, unit |-> i]),
                    !.calls = Append(@, 1),
                    !.pl_page = call.page,
                    !.pc = AfterInitial(call)])
    /\ UNCHANGED <<playlistDir, debugDir>>

\* lines 143-157: the items of the page
Consume(i) ==
    /\ phase = "running"
    /\ units[i].pc = "consume"
    /\ LET r == ConsumeItems(units[i].pl_page[1].items, units[i].songs_local)
       IN  Step(i, [units[i] EXCEPT !.songs_local = r.songs,
                                    !.pc = IF r.raised THEN "raised" ELSE "advance"])
    /\ UNCHANGED <<playlistDir, debugDir>>

\* lines 158-161: the break, or the open of the debug artifact of the page
Advance(i) ==
    /\ phase = "running"
    /\ units[i].pc = "advance"
    /\ LET u == units[i]
           next == Continuation(u.pl_page[1])
       IN  IF next # None
           THEN /\ debugDir' = IF debug THEN Truncate(debugDir, <<tasks[i].slug, u.page_idx>>)
                                ELSE debugDir
                /\ Step(i, [u EXCEPT !.pc = IF debug THEN "dump" ELSE "next"])
           ELSE /\ debugDir' = debugDir
                /\ Step(i, [u EXCEPT !.pc = IF debug /\ HasSongs(u.songs_local)
                                            THEN "debuglast" ELSE "write"])
    /\ UNCHANGED playlistDir

\* lines 162-163: the page is dumped, the file is closed
DebugDump(i) ==
    /\ phase = "running"
    /\ units[i].pc = "dump"
    /\ debugDir' = Flush(debugDir, <<tasks[i].slug, units[i].page_idx>>, PageText(units[i].pl_page))
    /\ Step(i, [units[i] EXCEPT !.page_idx = @ + 1, !.pc = "next"])
    /\ UNCHANGED playlistDir

\* line 164: the next page
Follow(i) ==
    /\ phase = "running"
    /\ units[i].pc = "next"
    /\ LET u == units[i]
           next == Continuation(u.pl_page[1])
           call == ApiCall(u.pid[1], next[1])
       IN  Step(i, [u EXCEPT
              !.calls = Append(@, next[1]),
              !.pl_page = IF call.raised THEN @ ELSE call.page,
              !.pc = IF call.raised THEN "raised"
                     ELSE LoopOrLeave(call.page, u.songs_local)])
    /\ UNCHANGED <<playlistDir, debugDir>>

\* lines 168-170: whether the debug artifact of the last page exists
DebugLast(i) ==
    /\ phase = "running"
    /\ units[i].pc = "debuglast"
    /\ Step(i, [units[i] EXCEPT
             !.pc = IF <<tasks[i].slug, units[i].page_idx>> \in DOMAIN debugDir
                    THEN "write" ELSE "lastopen"])
    /\ UNCHANGED <<playlistDir, debugDir>>

\* line 171: the open of the debug artifact of the last page
LastOpen(i) ==
    /\ phase = "running"
    /\ units[i].pc = "lastopen"
    /\ debugDir' = Truncate(debugDir, <<tasks[i].slug, units[i].page_idx>>)
    /\ Step(i, [units[i] EXCEPT !.pc = "lastdump"])
    /\ UNCHANGED playlistDir

\* line 172: the last page is dumped, the file is closed
LastDump(i) ==
    /\ phase = "running"
    /\ units[i].pc = "lastdump"
    /\ debugDir' = Flush(debugDir, <<tasks[i].slug, units[i].page_idx>>, PageText(units[i].pl_page))
    /\ Step(i, [units[i] EXCEPT !.pc = "write"])
    /\ UNCHANGED playlistDir

\* lines 174-176: the open of the artifact, or the return without songs
Write(i) ==
    /\ phase = "running"
    /\ units[i].pc = "write"
    /\ playlistDir' = IF HasSongs(units[i].songs_local)
                      THEN Truncate(playlistDir, tasks[i].slug)
                      ELSE playlistDir
    /\ Step(i, [units[i] EXCEPT !.pc = IF HasSongs(units[i].songs_local) THEN "save"
                                       ELSE "returned"])
    /\ UNCHANGED debugDir

\* lines 177-178: the songs are dumped, the file is closed, and the return
Save(i) ==
    /\ phase = "running"
    /\ units[i].pc = "save"
    /\ playlistDir' = Flush(playlistDir, tasks[i].slug, SongsText(units[i].songs_local))
    /\ Step(i, [units[i] EXCEPT !.pc = "returned"])
    /\ UNCHANGED debugDir

\* lines 181-188: the end of the for loop, or of the with block of the pool,
\* which waits for every future; fut.result() raises what worker raised.
EndRun ==
    /\ phase = "running"
    /\ \A i \in 1..Len(units) : Finished(units[i])
    /\ phase' = IF \E i \in 1..Len(units) : units[i].pc = "raised" THEN "failed" ELSE "done"
    /\ UNCHANGED <<config, playlistDir, debugDir, run, startDir, tasks, units, session, lastRun,
                   fc, pg, pure>>

Next ==
    \/ StartRun
    \/ \E i \in 1..Len(units) : Start(i)
    \/ \E i \in 1..Len(units) : FetchAttempt(i)
    \/ \E i \in 1..Len(units) : Resolve(i)
    \/ \E i \in 1..Len(units) : Connect(i)
    \/ \E i \in 1..Len(units) : Consume(i)
    \/ \E i \in 1..Len(units) : Advance(i)
    \/ \E i \in 1..Len(units) : DebugDump(i)
    \/ \E i \in 1..Len(units) : Follow(i)
    \/ \E i \in 1..Len(units) : DebugLast(i)
    \/ \E i \in 1..Len(units) : LastOpen(i)
    \/ \E i \in 1..Len(units) : LastDump(i)
    \/ \E i \in 1..Len(units) : Write(i)
    \/ \E i \in 1..Len(units) : Save(i)
    \/ EndRun

Spec == Init /\ [][Next]_vars

(***************************************************************************)
(* fetch_url on its own, for every number of retries up to MaxRetries and  *)
(* every script of answers.                                                *)
(***************************************************************************)
Answers == {"ok", "timeout", "status"}
Backoffs == {1, 2}

InitFetch ==
    /\ genres = <<GenreA>>
    /\ limit = None
    /\ debug = FALSE
    /\ workers = DefaultWorkers
    /\ creds = TRUE
    /\ playlistDir = NoFiles
    /\ debugDir = NoFiles
    /\ Idle
    /\ fc \in {Some(FetchCall(script, <<None>>, r, b)) :
                 script \in [1..MaxRetries -> Answers], r \in 0..MaxRetries, b \in Backoffs}
    /\ pg = None
    /\ pure = <<>>

FetchUrlAttempt ==
    /\ fc # None
    /\ ~fc[1].returned
    /\ fc' = Some(FetchStep(fc[1]))
    /\ UNCHANGED <<config, playlistDir, debugDir, phase, run, startDir, tasks, units,
                   session, lastRun, pg, pure>>

NextFetch == FetchUrlAttempt

SpecFetch == InitFetch /\ [][NextFetch]_vars

(***************************************************************************)
(* genre_songs_scrape.py: the title of a preview, the previews of a genre  *)
(* page, and process_genres.                                               *)
(***************************************************************************)
White == {" "}
EgMarker == <<"e", ".", "g", ".">>
Dash == <<" ", "-", " ">>

\* TITLE_RE = ^(.*?)\s*"(.*?)"$ matched at the start: the string must end with a
\* quote; the lazy first group ends before the white space that leads to the
\* first quote which is not the last character, the second group is what lies
\* between that quote and the last one.
TITLE_RE(s) ==
    LET quotes == {q \in 1..(Len(s) - 1) : s[q] = "\""}
    IN  IF s = <<>> \/ s[Len(s)] # "\"" \/ quotes = {} THEN None
        ELSE LET q == Min(quotes)
                 i == Min({b \in 1..q : \A k \in b..(q - 1) : s[k] \in White})
             IN  Some(<<SubSeq(s, 1, i - 1), SubSeq(s, q + 1, Len(s) - 1)>>)

parse_song_title(title_attr) ==
    IF title_attr = <<>> THEN <<>>
    ELSE LET t == Strip(title_attr)
             c == IF StartsWith(LowerStr(t), EgMarker)
                  THEN LStrip(SubSeq(t, 3 + 1, Len(t)), {" ", "."})
                  ELSE t
             m == TITLE_RE(c)
         IN  IF m # None THEN Strip(m[1][1]) \o Dash \o Strip(m[1][2]) ELSE c

\* A div.genre.scanme of a genre page: its preview_url and title attributes.
SongDiv(preview_url, title) == [preview_url |-> preview_url, title |-> title]

RECURSIVE extract_songs_from_html(_)
extract_songs_from_html(divs) ==
    IF divs = <<>> THEN <<>>
    ELSE LET div == Head(divs)
         IN  IF div.preview_url = None \/ div.preview_url = Some(<<>>)
             THEN extract_songs_from_html(Tail(divs))
             ELSE <<[preview_url |-> div.preview_url[1],
                     preview_title |-> parse_song_title(IF div.title = None THEN <<>>
                                                        ELSE div.title[1])]>>
                  \o extract_songs_from_html(Tail(divs))

\* The titles of the model.
TitlePair == <<"e", ".", "g", ".", " ", "d", "p", " ", "\"", "o", "m", "\"">>
TitlePairUpper == <<" ", "E", ".", "G", ".", " ", "x", " ", " ", "\"", "y", " ", "z", "\"", " ">>
TitlePlain == <<"e", ".", "g", ".", " ", "a", "b">>
TitleDots == <<"e", ".", "g", ".", " ", ".", ".", "a", "b">>
TitleNoMarker == <<"a", " ", "\"", "b", "\"">>
TitleTwoQuotes == <<"e", ".", "g", ".", " ", "a", " ", "\"", "b", "\"", " ", "\"", "c", "\"">>
TitleOpen == <<"e", ".", "g", ".", " ", "a", " ", "\"", "b">>
TitleMarkerOnly == <<"e", ".", "g", ".">>
TitlePlainUpper == <<"E", ".", "g", ".", " ", "a", "b">>
TitleOneQuote == <<"e", ".", "g", ".", " ", "a", "b", "\"">>
Titles == {TitlePair, TitlePairUpper, TitlePlain, TitleDots, TitleNoMarker,
           TitleTwoQuotes, TitleOpen, TitleMarkerOnly, TitlePlainUpper, TitleOneQuote,
           <<>>}

\* The bubbles of the page of a genre.
PageBubbles(url) ==
    CASE url = page_url(GenreA.href) ->
             <<SongDiv(Some(Id("u", "1")), Some(TitlePair)),
               SongDiv(None, Some(TitlePlain)),
               SongDiv(Some(Id("u", "2")), None)>>
      [] url = page_url(GenreB.href) -> <<SongDiv(Some(Id("u", "3")), Some(TitleDots))>>
      [] url = page_url(GenreC.href) -> <<SongDiv(Some(<<>>), Some(TitleNoMarker))>>
      [] url = page_url(GenreD.href) -> <<SongDiv(Some(Id("u", "4")), Some(TitleTwoQuotes))>>
      [] url = page_url(GenreM.href) -> <<SongDiv(Some(Id("u", "5")), Some(TitlePlain))>>
      [] OTHER -> <<>>

\* Previews of an earlier run, of a page that has changed since.
OldPreviews == <<[preview_url |-> Id("u", "0"), preview_title |-> Id("t", "0")]>>

KeyPreviewUrl == <<"p", "r", "e", "v", "i", "e", "w", "_", "u", "r", "l">>
KeyPreviewTitle == <<"p", "r", "e", "v", "i", "e", "w", "_", "t", "i", "t", "l", "e">>

\* json.dump(songs, out_fp, ensure_ascii=False, indent=2)
PreviewsText(songs) ==
    DumpList([k \in 1..Len(songs) |->
                 DumpDict(<<Member(KeyPreviewUrl, DumpStr(songs[k].preview_url)),
                            Member(KeyPreviewTitle, DumpStr(songs[k].preview_title))>>, 2)], 0)

\* a.json of an earlier run, or c.json of the time the files had the genre's name
InitialSongDirs ==
    {NoFiles, (<<"a">> :> PreviewsText(OldPreviews)), (<<"c">> :> PreviewsText(OldPreviews))}

\* genre_songs before genre_songs_scrape.py was ever loaded: no directory
MissingDir == [exists |-> FALSE, files |-> NoFiles]

\* process_genres before its first call: dir is the files of genre_songs, songs_dir
\* whether the directory exists
NewSongs(d) ==
    [pc |-> "idle", calls |-> 0, songs_dir |-> d.exists, dir |-> d.files, start |-> d.files,
     k |-> 1, processed |-> 0, f |-> None, gets |-> <<>>, renames |-> 0, printed |-> None]

InitSongs ==
    /\ genres \in Catalogs
    /\ limit \in Limits
    /\ debug = FALSE
    /\ workers = DefaultWorkers
    /\ creds = TRUE
    /\ playlistDir = NoFiles
    /\ debugDir = NoFiles
    /\ Idle
    /\ fc = None
    /\ pg \in {Some(NewSongs(d)) :
                  d \in {MissingDir} \cup {[exists |-> TRUE, files |-> dir] : dir \in InitialSongDirs}}
    /\ pure = <<>>

SongsStep(p) ==
    /\ pg' = Some(p)
    /\ UNCHANGED <<config, playlistDir, debugDir, phase, run, startDir, tasks, units,
                   session, lastRun, fc, pure>>

\* lines 68-73: a call of process_genres.  The module makes the directory when it
\* is loaded (OUTPUT_DIR.mkdir(exist_ok=True), line 16), before any call.
process_genres ==
    /\ pg # None
    /\ pg[1].pc \in {"idle", "done", "renamed"}
    /\ pg[1].calls < MaxRuns
    /\ SongsStep([pg[1] EXCEPT !.pc = "loop", !.calls = @ + 1, !.songs_dir = TRUE,
                               !.start = pg[1].dir, !.k = 1,
                               !.processed = 0, !.f = None,
                               !.gets = [i \in 1..Len(genres) |-> 0]])

\* lines 74-80: the next entry of the catalog, and the call of fetch_url
SongsEntry ==
    /\ pg # None
    /\ pg[1].pc = "loop"
    /\ LET p == pg[1]
       IN  IF p.k > Len(genres) THEN SongsStep([p EXCEPT !.pc = "done"])
           ELSE IF genres[p.k].href = <<>> THEN SongsStep([p EXCEPT !.k = @ + 1])
           ELSE LET url == page_url(genres[p.k].href)
                    f == FetchCall(Web(url).script, PageBubbles(url), DefaultRetries, DefaultBackoff)
                IN  SongsStep([p EXCEPT !.pc = "fetch", !.f = Some(f)])

\* one attempt of fetch_url, and after the last one lines 81-83
SongsFetchAttempt ==
    /\ pg # None
    /\ pg[1].pc = "fetch"
    /\ LET p == pg[1]
           f == IF p.f[1].returned THEN p.f[1] ELSE FetchStep(p.f[1])
       IN  SongsStep([p EXCEPT !.f = Some(f),
                               !.gets[p.k] = f.gets,
                               !.k = IF f.returned /\ f.result = None THEN @ + 1 ELSE @,
                               !.pc = IF ~f.returned THEN "fetch"
                                      ELSE IF f.result = None THEN "loop"
                                      ELSE "save"])

\* if limit and processed >= limit
LimitReached(lim, processed) == lim # None /\ lim[1] # 0 /\ processed >= lim[1]

\* lines 84-100: the previews of the page, the artifact, and the limit
SongsSave ==
    /\ pg # None
    /\ pg[1].pc = "save"
    /\ LET p == pg[1]
           songs == extract_songs_from_html(p.f[1].result[1])
           filename_slug == slug_from_href(genres[p.k].href, genres[p.k].name)
       IN  SongsStep([p EXCEPT !.dir = Flush(Truncate(p.dir, filename_slug), filename_slug,
                                             PreviewsText(songs)),
                               !.processed = @ + 1,
                               !.k = @ + 1,
                               !.pc = IF LimitReached(limit, p.processed + 1) THEN "done"
                                      ELSE "loop"])

(***************************************************************************)
(* rename_genre_files.py: main, run on the files of genre_songs between    *)
(* the calls of process_genres.                                            *)
(***************************************************************************)
\* path.unlink(), and the source of path.rename(new)
Remove(dir, path) == [x \in DOMAIN dir \ {path} |-> dir[x]]

\* lines 25-45: the loop over the catalog from the entry number k on, with the
\* files, the renamed and the skipped so far
RECURSIVE RenameFiles(_, _, _, _, _)
RenameFiles(catalog, k, dir, renamed, skipped) ==
    IF k > Len(catalog) THEN [dir |-> dir, renamed |-> renamed, skipped |-> skipped]
    ELSE LET m == SLUG_RE(catalog[k].href)
             old_name == sanitize_filename(catalog[k].name)
         IN  IF m = None THEN RenameFiles(catalog, k + 1, dir, renamed, skipped + 1)
             ELSE IF old_name \notin DOMAIN dir
                  THEN RenameFiles(catalog, k + 1, dir, renamed, skipped)
             ELSE IF m[1] \in DOMAIN dir
                  THEN RenameFiles(catalog, k + 1, Remove(dir, old_name), renamed, skipped)
             ELSE RenameFiles(catalog, k + 1, (m[1] :> dir[old_name]) @@ Remove(dir, old_name),
                              renamed + 1, skipped)

\* what main prints: the message of line 19, or the counts of line 46
DoesNotExist == [line |-> "does not exist", counts |-> None]
Renamed(renamed, skipped) == [line |-> "Renamed", counts |-> Some(<<renamed, skipped>>)]

\* lines 17-46: main of rename_genre_files.py.  Without the directory genre_songs
\* it prints the message and returns (lines 18-20): genres.json is not read, no
\* file is touched and no count is printed.
rename_genre_files ==
    /\ pg # None
    /\ pg[1].pc \in {"idle", "done", "renamed"}
    /\ pg[1].renames < MaxRuns
    /\ IF ~pg[1].songs_dir
       THEN SongsStep([pg[1] EXCEPT !.pc = "renamed", !.renames = @ + 1,
                                    !.printed = Some(DoesNotExist)])
       ELSE LET r == RenameFiles(genres, 1, pg[1].dir, 0, 0)
            IN  SongsStep([pg[1] EXCEPT !.pc = "renamed", !.renames = @ + 1, !.dir = r.dir,
                                        !.printed = Some(Renamed(r.renamed, r.skipped))])

NextSongs ==
    \/ process_genres
    \/ SongsEntry
    \/ SongsFetchAttempt
    \/ SongsSave
    \/ rename_genre_files

SpecSongs == InitSongs /\ [][NextSongs]_vars

(***************************************************************************)
(* scrape.py: the style of a bubble, its name, and parse_file.  A style    *)
(* attribute is written from its declarations; the parser reads the        *)
(* string.                                                                 *)
(***************************************************************************)
ColorKey == <<"c", "o", "l", "o", "r", ":">>
BackgroundKey == <<"b", "a", "c", "k", "g", "r", "o", "u", "n", "d", "-">>
TopKey == <<"t", "o", "p">>
LeftKey == <<"l", "e", "f", "t">>
PxUnit == <<"p", "x">>
HexDigits == Digits \cup {"a", "b", "c", "d", "e", "f"} \cup {"A", "B", "C", "D", "E", "F"}
\* {6} of STYLE_COLOR_RE
HexLen == 6

\* re.IGNORECASE: p, in lower case, occurs in s at i whatever the case in s
OccursAtI(s, p, i) ==
    i >= 1 /\ i + Len(p) - 1 <= Len(s) /\ LowerStr(SubSeq(s, i, i + Len(p) - 1)) = p

\* the position after \s* from i
RECURSIVE SkipWhite(_, _)
SkipWhite(s, i) == IF i <= Len(s) /\ s[i] \in White THEN SkipWhite(s, i + 1) ELSE i

\* the position after [0-9]* from i
RECURSIVE SkipDigits(_, _)
SkipDigits(s, i) == IF i <= Len(s) /\ s[i] \in Digits THEN SkipDigits(s, i + 1) ELSE i

\* color:\s*(#[0-9a-fA-F]{6}) at i: the group, or None
ColorAt(s, i) ==
    IF ~OccursAtI(s, ColorKey, i) THEN None
    ELSE LET j == SkipWhite(s, i + Len(ColorKey))
         IN  IF /\ j + HexLen <= Len(s)
                /\ s[j] = "#"
                /\ \A k \in (j + 1)..(j + HexLen) : s[k] \in HexDigits
             THEN Some(SubSeq(s, j, j + HexLen))
             ELSE None

\* STYLE_COLOR_RE at i: with the optional background- first, then without it
ColorMatchAt(s, i) ==
    IF OccursAtI(s, BackgroundKey, i) /\ ColorAt(s, i + Len(BackgroundKey)) # None
    THEN ColorAt(s, i + Len(BackgroundKey))
    ELSE ColorAt(s, i)

\* STYLE_COLOR_RE.search(style): the group of the leftmost match, or None
STYLE_COLOR_RE(style) ==
    LET starts == {i \in 1..Len(style) : ColorMatchAt(style, i) # None}
    IN  IF starts = {} THEN None ELSE ColorMatchAt(style, Min(starts))

\* STYLE_POS_RE = (top|left):\s*([0-9]+)px at i: its groups and its end, or None
PosMatchAt(s, i) ==
    LET key == IF OccursAtI(s, TopKey, i) THEN TopKey
               ELSE IF OccursAtI(s, LeftKey, i) THEN LeftKey
               ELSE <<>>
        c == i + Len(key)
    IN  IF key = <<>> \/ c > Len(s) THEN None
        ELSE IF s[c] # ":" THEN None
        ELSE LET d == SkipWhite(s, c + 1)
                 e == SkipDigits(s, d)
             IN  IF e > d /\ OccursAtI(s, PxUnit, e)
                 THEN Some([prop |-> SubSeq(s, i, c - 1), value |-> SubSeq(s, d, e - 1),
                            end |-> e + Len(PxUnit)])
                 ELSE None

\* STYLE_POS_RE.findall(style), from i on: the matches from left to right
RECURSIVE STYLE_POS_RE(_, _)
STYLE_POS_RE(s, i) ==
    IF i > Len(s) THEN <<>>
    ELSE LET m == PosMatchAt(s, i)
         IN  IF m # None THEN <<m[1]>> \o STYLE_POS_RE(s, m[1].end)
             ELSE STYLE_POS_RE(s, i + 1)


\* int(value) of a string of digits
RECURSIVE ToInt(_)
ToInt(value) ==
    IF value = <<>> THEN 0
    ELSE 10 * ToInt(SubSeq(value, 1, Len(value) - 1))
         + (CHOOSE n \in 0..9 : DigitSeq[n + 1] = value[Len(value)])

EmptyDict == [x \in {} |-> 0]

\* result[prop] = int(value) for the matches in turn
RECURSIVE PutPositions(_, _)
PutPositions(ms, result) ==
    IF ms = <<>> THEN result
    ELSE PutPositions(Tail(ms), (Head(ms).prop :> ToInt(Head(ms).value)) @@ result)

\* _parse_style: the color key, if any, and the keys of the positions
parse_style(style) ==
    LET m_color == STYLE_COLOR_RE(style)
    IN  [color |-> IF m_color = None THEN None ELSE Some(LowerStr(m_color[1])),
         pos |-> PutPositions(STYLE_POS_RE(style, 1), EmptyDict)]

\* A declaration of a style attribute, and the attribute as it is written.
Decl(prop, value) == [prop |-> prop, value |-> value]
StyleOf(decls) == Join(<<";">>, [k \in 1..Len(decls) |-> decls[k].prop \o <<":">> \o decls[k].value])

BackgroundColor == <<"b", "a", "c", "k", "g", "r", "o", "u", "n", "d", "-", "c", "o", "l", "o", "r">>
ForeColor == <<"c", "o", "l", "o", "r">>
HexMixed == <<"#", "A", "A", "b", "b", "0", "0">>
HexLow == <<"#", "1", "1", "2", "2", "3", "3">>
HexUpper == <<"#", "0", "F", "0", "F", "0", "F">>
HexShort == <<"#", "1", "2", "3", "4", "5">>

Styles ==
    { <<Decl(BackgroundColor, HexMixed), Decl(ForeColor, HexLow)>>,
      <<Decl(ForeColor, HexLow), Decl(BackgroundColor, HexMixed)>>,
      <<Decl(ForeColor, <<" ">> \o HexUpper), Decl(<<"t", "o", "p">>, <<"1", "2", "p", "x">>), Decl(<<"l", "e", "f", "t">>, <<" ", "3", "p", "x">>)>>,
      <<Decl(<<"C", "O", "L", "O", "R">>, HexUpper)>>,
      <<Decl(<<"t", "o", "p">>, <<"5", "p", "x">>), Decl(<<"l", "e", "f", "t">>, <<"1", "0", "P", "X">>), Decl(<<"t", "o", "p">>, <<"7", "p", "x">>)>>,
      <<Decl(BackgroundColor, HexShort), Decl(ForeColor, HexLow)>>,
      <<Decl(<<"m", "a", "r", "g", "i", "n", "-", "l", "e", "f", "t">>, <<"7", "p", "x">>)>>,
      <<Decl(ForeColor, HexShort), Decl(<<"t", "o", "p">>, <<"3">>)>>,
      <<>> }

\* The children of a bubble: strings, and elements with the string they hold.
Text(s) == [kind |-> "text", tag |-> "", href |-> None, text |-> s]
Elem(tag, href, s) == [kind |-> "tag", tag |-> tag, href |-> href, text |-> s]
\* A div.genre.scanme of the snapshot
Bubble(children, decls) == [children |-> children, style |-> StyleOf(decls)]

\* the first NavigableString child that is not blank, stripped
RECURSIVE FirstString(_)
FirstString(children) ==
    IF children = <<>> THEN None
    ELSE IF Head(children).kind = "text" /\ Strip(Head(children).text) # <<>>
         THEN Some(Strip(Head(children).text))
         ELSE FirstString(Tail(children))

\* div.get_text(strip=True): the strings of the div, stripped, the blank ones left out
RECURSIVE GetText(_)
GetText(children) ==
    IF children = <<>> THEN <<>>
    ELSE Strip(Head(children).text) \o GetText(Tail(children))

\* _extract_genre_name
extract_genre_name(div) ==
    LET name == FirstString(div.children)
    IN  IF name # None THEN name[1] ELSE RStrip(GetText(div.children), {"»", " "})

\* div.find("a", href=True)
RECURSIVE FindNav(_)
FindNav(children) ==
    IF children = <<>> THEN None
    ELSE IF Head(children).kind = "tag" /\ Head(children).tag = "a" /\ Head(children).href # None
         THEN Head(children).href
         ELSE FindNav(Tail(children))

\* lines 114-128: the data of a bubble
BubbleData(div) ==
    LET nav == FindNav(div.children)
        st == parse_style(div.style)
    IN  [href |-> IF nav = None THEN None ELSE Some(Strip(nav[1])),
         color |-> st.color, pos |-> st.pos]

\* Accumulate as a list: an entry for every bubble
AccumulateEvery(catalog, name, data) == Append(catalog, [name |-> name, data |-> data])

\* genres[name] = data: a dictionary keeps the place of a key it has
Accumulate(catalog, name, data) ==
    IF \E k \in 1..Len(catalog) : catalog[k].name = name
    THEN [k \in 1..Len(catalog) |->
             IF catalog[k].name = name THEN [name |-> name, data |-> data] ELSE catalog[k]]
    ELSE Append(catalog, [name |-> name, data |-> data])

\* the loop of parse_file over the bubbles
RECURSIVE ParseBubbles(_, _)
ParseBubbles(divs, catalog) ==
    IF divs = <<>> THEN catalog
    ELSE LET name == extract_genre_name(Head(divs))
         IN  IF name = <<>> THEN ParseBubbles(Tail(divs), catalog)
             ELSE ParseBubbles(Tail(divs), Accumulate(catalog, name, BubbleData(Head(divs))))

\* parse_file of a snapshot, None when the file does not exist: the bubbles are
\* those BeautifulSoup selects in it.
parse_file(snapshot) ==
    IF snapshot = None THEN [raised |-> TRUE, genres |-> <<>>]
    ELSE [raised |-> FALSE, genres |-> ParseBubbles(snapshot[1], <<>>)]

Raquo == <<"»">>
BubbleA == Bubble(<<Text(<<"a", " ">>), Elem("a", Some(MapHref("a")), Raquo)>>,
                  <<Decl(ForeColor, HexLow), Decl(<<"t", "o", "p">>, <<"1", "2", "p", "x">>)>>)
BubbleB == Bubble(<<Text(<<" ">>), Text(<<" ", "b", " ">>), Elem("a", Some(<<" ">> \o MapHref("b")), Raquo)>>,
                  <<Decl(BackgroundColor, HexMixed), Decl(<<"l", "e", "f", "t">>, <<" ", "3", "p", "x">>)>>)
\* the name of BubbleA once more, with another link and another style
BubbleA2 == Bubble(<<Text(<<"a">>), Elem("a", Some(<<"q", "/">> \o MapHref("a")), Raquo)>>,
                   <<Decl(ForeColor, HexUpper)>>)
\* the name in an element: the fallback
BubbleC == Bubble(<<Elem("b", None, <<"c">>), Elem("a", None, Raquo)>>, <<>>)
\* no name
BubbleLink == Bubble(<<Text(<<" ">>), Elem("a", Some(MapHref("x")), Raquo)>>, <<>>)
BubbleEmpty == Bubble(<<>>, <<>>)

Snapshots ==
    { None,
      Some(<<>>),
      Some(<<BubbleA, BubbleB>>),
      Some(<<BubbleA, BubbleLink, BubbleC>>),
      Some(<<BubbleA, BubbleB, BubbleA2>>),
      Some(<<BubbleA2, BubbleEmpty, BubbleA, BubbleA>>) }

(***************************************************************************)
(* The functions without state, called on the inputs of the model, and     *)
(* main of scrape.py, which calls parse_file and writes genres.json.       *)
(***************************************************************************)
\* Bound of the model: the calls kept in pure
MaxCalls == 2

HrefsCalled == {GenreA.href, GenreC.href, GenreD.href, <<"e", "n", "g", "e", "n", "r", "e", "m", "a", "p", "-", ".", "h", "t", "m", "l">>, <<"e", "n", "g", "e", "n", "r", "e", "m", "a", "p", "-", "a", ".", "b", ".", "h", "t", "m", "l">>}
NamesCalled == {GenreA.name, GenreC.name, GenreD.name}

InitCalls ==
    /\ genres = <<GenreA>>
    /\ limit = None
    /\ debug = FALSE
    /\ workers = DefaultWorkers
    /\ creds = TRUE
    /\ playlistDir = NoFiles
    /\ debugDir = NoFiles
    /\ Idle
    /\ fc = None
    /\ pg = None
    /\ pure = <<>>

\* the call is kept with its result
Called(call) ==
    /\ pure' = Append(pure, call)
    /\ UNCHANGED <<config, playlistDir, debugDir, phase, run, startDir, tasks, units,
                   session, lastRun, fc, pg>>

CallSlugFromHref ==
    /\ Len(pure) < MaxCalls
    /\ \E href \in HrefsCalled, name \in NamesCalled :
           Called([href |-> href, name |-> name, fn |-> "slug_from_href",
                   out |-> slug_from_href(href, name)])

CallParseStyle ==
    /\ Len(pure) < MaxCalls
    /\ \E decls \in Styles :
           Called([style |-> StyleOf(decls), decls |-> decls, fn |-> "_parse_style",
                   out |-> parse_style(StyleOf(decls))])

CallParseFile ==
    /\ Len(pure) < MaxCalls
    /\ \E snapshot \in Snapshots :
           Called([snapshot |-> snapshot, fn |-> "parse_file", out |-> parse_file(snapshot)])

CallParseSongTitle ==
    /\ Len(pure) < MaxCalls
    /\ \E title \in Titles :
           Called([title |-> title, fn |-> "parse_song_title", out |-> parse_song_title(title)])

\* genres.json as main leaves it and json.load gives it to scrape_playlists and
\* process_genres: the entries in the order of the dictionary, each with the href
\* the two read with meta.get("href"), which an entry without the key lacks
WrittenCatalog(catalog) ==
    [k \in 1..Len(catalog) |->
        Genre(catalog[k].name,
              IF catalog[k].data.href = None THEN <<>> ELSE catalog[k].data.href[1])]

\* main of scrape.py, lines 169-177: the call of parse_file, and unless it raised
\* (SystemExit(1) then) the catalog written to genres.json
main ==
    /\ Len(pure) < MaxCalls
    /\ \E snapshot \in Snapshots :
           LET out == parse_file(snapshot)
           IN  /\ pure' = Append(pure, [snapshot |-> snapshot, fn |-> "parse_file", out |-> out])
               /\ genres' = IF out.raised THEN genres ELSE WrittenCatalog(out.genres)
    /\ UNCHANGED <<limit, debug, workers, creds, playlistDir, debugDir, phase, run, startDir,
                   tasks, units, session, lastRun, fc, pg>>

NextCalls ==
    \/ CallSlugFromHref
    \/ CallParseStyle
    \/ CallParseFile
    \/ CallParseSongTitle
    \/ main

SpecCalls == InitCalls /\ [][NextCalls]_vars

(***************************************************************************)
(* The claims.                                                             *)
(***************************************************************************)
UnitIds == 1..Len(units)
Over == phase \in {"done", "failed"}
SlugOf(g) == slug_from_href(g.href, g.name)

\* C1: a genre whose artifact <slug>.json exists when a call of scrape_playlists
\* begins gets no genre-page fetch and no playlist API call in that call, and the
\* artifact keeps the content it had.
C1_ResumeSkipsExisting ==
    phase # "idle" =>
        \A k \in 1..Len(genres) :
            SlugOf(genres[k]) \in DOMAIN startDir =>
                /\ \A i \in UnitIds :
                       tasks[i].name = genres[k].name =>
                           /\ units[i].f = None \/ units[i].f[1].gets = 0
                           /\ units[i].calls = <<>>
                /\ SlugOf(genres[k]) \in DOMAIN playlistDir
                /\ playlistDir[SlugOf(genres[k])] = startDir[SlugOf(genres[k])]

\* A second call is over, it fetched for some genre, and it skipped a genre whose
\* artifact the first call wrote.
C1_Witness ==
    /\ phase = "done"
    /\ run = 2
    /\ \E i \in UnitIds : units[i].calls # <<>>
    /\ \E k \in 1..Len(genres) :
           /\ SlugOf(genres[k]) \in DOMAIN startDir
           /\ startDir[SlugOf(genres[k])] # SongsText(OldSongs)
           /\ \A i \in UnitIds : tasks[i].name # genres[k].name

\* C2: with the credentials in place, when a call of scrape_playlists is over every
\* unit of its work list has run to its end and the call has not raised, whatever
\* happened in the units.
C2_FailuresIsolated ==
    (creds /\ Over) => (phase = "done" /\ \A i \in UnitIds : Finished(units[i]))

(***************************************************************************)
(* The sequential mode as a function: what the for loop of line 182 leaves *)
(* in PLAYLIST_DIR, from the answers of the site and of the API.           *)
(***************************************************************************)
\* fetch_url to its return
RECURSIVE FetchRun(_)
FetchRun(f) == IF f.returned THEN f ELSE FetchRun(FetchStep(f))

\* the while loop of worker from a page on
RECURSIVE HarvestFrom(_, _, _)
HarvestFrom(pid, page, songs) ==
    IF page = None THEN [raised |-> FALSE, songs |-> songs]
    ELSE LET r == ConsumeItems(page[1].items, songs)
             next == Continuation(page[1])
         IN  IF r.raised THEN r
             ELSE IF next = None THEN r
             ELSE LET call == ApiCall(pid, next[1])
                  IN  IF call.raised THEN [raised |-> TRUE, songs |-> r.songs]
                      ELSE HarvestFrom(pid, call.page, r.songs)

\* worker on a task: whether it raises, and the songs it has at line 174
WorkerResult(task) ==
    LET url == page_url(task.href)
        f == FetchRun(FetchCall(Web(url).script, Web(url).anchors, DefaultRetries, DefaultBackoff))
        id == IF f.result = None THEN None ELSE get_playlist_id_from_genre_page(f.result[1])
    IN  IF id = None THEN [raised |-> FALSE, songs |-> <<>>]
        ELSE IF ~creds THEN [raised |-> TRUE, songs |-> <<>>]
        ELSE IF ApiCall(id[1], 1).raised THEN [raised |-> FALSE, songs |-> <<>>]
        ELSE HarvestFrom(id[1], ApiCall(id[1], 1).page, <<>>)

\* for t in tasks: worker(t), from the task number k on
RECURSIVE SequentialResult(_, _, _)
SequentialResult(dir, work, k) ==
    IF k > Len(work) THEN dir
    ELSE LET r == WorkerResult(work[k])
         IN  IF r.raised THEN dir
             ELSE SequentialResult(IF HasSongs(r.songs)
                                   THEN Flush(Truncate(dir, work[k].slug), work[k].slug,
                                              SongsText(r.songs))
                                   ELSE dir,
                                   work, k + 1)

\* The sequential calls of the model end with what the function gives.
SequentialAgrees ==
    (Over /\ Sequential) => playlistDir = SequentialResult(startDir, tasks, 1)

\* C3: a call with a pool (workers 2 or 4) ends with the artifacts, and the content
\* of each, that the call with workers = 1 ends with from the same directory, catalog
\* and upstream answers, for every interleaving of the pool's tasks.
C3_PoolEqualsSequential ==
    (Over /\ ~Sequential) => playlistDir = SequentialResult(startDir, tasks, 1)

\* The songs a page must give: of the items with a track whose ISRC is a non-empty
\* string, in item order.
Accepted(items) ==
    LET Keeps(it) == /\ it.track # None
                     /\ it.track[1].external_ids # None
                     /\ it.track[1].external_ids[1].isrc # None
                     /\ it.track[1].external_ids[1].isrc[1] # <<>>
        kept == SelectSeq(items, Keeps)
    IN  [k \in 1..Len(kept) |-> build_song_record(kept[k].track[1])]

RECURSIVE AcceptedUpTo(_, _)
AcceptedUpTo(chain, n) ==
    IF n = 0 THEN <<>> ELSE AcceptedUpTo(chain, n - 1) \o Accepted(chain[n])

\* the harvest of the unit is over and no call of it failed
HarvestComplete(u) ==
    /\ u.pc \in {"debuglast", "lastopen", "lastdump", "write", "save", "returned"}
    /\ u.calls # <<>>
    /\ PlaylistOf(u.pid[1]).failAt = 0

\* C4: the calls of a harvest are the pages 1, 2, ... in turn, each once; over a
\* chain of P pages whose fetches all succeed the harvest ends after exactly P
\* calls, on the page without continuation, with the accepted records of the
\* pages 1..P concatenated in page order and in item order.
C4_PaginationInOrder ==
    \A i \in UnitIds :
        LET u == units[i]
        IN  /\ u.calls = [k \in 1..Len(u.calls) |-> k]
            /\ HarvestComplete(u) =>
                   LET chain == PlaylistOf(u.pid[1]).chain
                   IN  /\ Len(u.calls) = Len(chain)
                       /\ u.pl_page # None
                       /\ u.pl_page[1].offset = Len(chain)
                       /\ u.pl_page[1].next = None
                       /\ u.songs_local = AcceptedUpTo(chain, Len(chain))

\* A unit has returned from the harvest of the chain of MaxPages pages, with songs
\* of its first and of its last page.
C4_Witness ==
    \E i \in UnitIds :
        /\ units[i].pc = "returned"
        /\ HarvestComplete(units[i])
        /\ Len(units[i].calls) = MaxPages
        /\ Len(units[i].calls) >= 3
        /\ Len(units[i].songs_local) >= 3

\* the tracks of a page, and those of them without an ISRC code
TracksOf(items) == {k \in 1..Len(items) : items[k].track # None}
LackingIsrc(items) ==
    {k \in TracksOf(items) :
        \/ items[k].track[1].external_ids = None
        \/ items[k].track[1].external_ids[1].isrc = None
        \/ items[k].track[1].external_ids[1].isrc[1] = <<>>}

\* C5: when the item loop of a page with K tracks, M of them without an ISRC code
\* (missing or empty), is over, K - M records were appended for the page, each
\* with a non-empty isrc; an item without a track object adds none.  The loop is
\* over when the unit leaves line 143-157, by its end or by an exception.
C5_IsrcFilter ==
    [][\A i \in UnitIds :
          (i \in 1..Len(units') /\ units[i].pc = "consume" /\ units'[i].pc # "consume") =>
              LET items == units[i].pl_page[1].items
                  old == units[i].songs_local
                  new == units'[i].songs_local
              IN  /\ Len(new) - Len(old)
                       = Cardinality(TracksOf(items)) - Cardinality(LackingIsrc(items))
                  /\ SubSeq(new, 1, Len(old)) = old
                  /\ \A k \in 1..Len(new) : new[k].isrc # <<>>]_vars

\* C6: fetch_url makes at most retries attempts and never raises; it returns the
\* text of the first good attempt, having made no attempt after it, and None after
\* retries failed attempts.
C6_FetchRetries ==
    fc # None =>
        LET f == fc[1]
            good == {k \in 1..f.retries : Answer(f.script, k - 1) = "ok"}
        IN  /\ f.gets <= f.retries
            /\ ~f.raised
            /\ f.returned =>
                   IF good # {}
                   THEN f.result = Some(f.text) /\ f.gets = Min(good)
                   ELSE f.result = None /\ f.gets = f.retries
            /\ ~f.returned =>
                   /\ f.result = None
                   /\ \A k \in 1..f.gets : Answer(f.script, k - 1) # "ok"

\* With the default 3 retries, the call returned the text of its second attempt,
\* and the third would have been good as well.
C6_Witness ==
    /\ fc # None
    /\ fc[1].retries = DefaultRetries
    /\ fc[1].returned
    /\ fc[1].gets = 2
    /\ fc[1].result = Some(fc[1].text)
    /\ Answer(fc[1].script, 2) = "ok"

\* the unit called the API, came to line 174 without songs and returned
ZeroHarvest(u) == u.pc = "returned" /\ u.calls # <<>> /\ ~HasSongs(u.songs_local)

\* C7: every artifact a call writes holds at least one record; when a call is over,
\* a genre whose harvest gave no record has no artifact; and the next call puts it
\* on its work list again.
C7_ConditionalWrite ==
    /\ Over =>
           \A slug \in DOMAIN playlistDir :
               (slug \notin DOMAIN startDir \/ playlistDir[slug] # startDir[slug]) =>
                   \E i \in UnitIds :
                       /\ tasks[i].slug = slug
                       /\ HasSongs(units[i].songs_local)
                       /\ playlistDir[slug] = SongsText(units[i].songs_local)
    /\ Over =>
           \A i \in UnitIds :
               ZeroHarvest(units[i]) => tasks[i].slug \notin DOMAIN playlistDir
    /\ (phase # "idle" /\ run >= 2) =>
           \A i \in 1..Len(lastRun.units) :
               ZeroHarvest(lastRun.units[i]) =>
                   \E j \in UnitIds : tasks[j].name = lastRun.tasks[i].name

\* C8: the units of the work list of a call with a pool have pairwise distinct
\* artifact paths, for every catalog.
C8_DistinctPaths ==
    (phase = "running" /\ ~Sequential) =>
        \A i, j \in UnitIds : i # j => tasks[i].slug # tasks[j].slug

\* C9: no two units that are running at the same time use the same HTTP session
\* or the same API client.
C9_OwnSessionAndClient ==
    \A i, j \in UnitIds :
        (i # j /\ Active(units[i]) /\ Active(units[j])) =>
            /\ units[i].sess # units[j].sess
            /\ (units[i].client # None /\ units[j].client # None) =>
                   units[i].client # units[j].client

\* the last call of the unit was for a continuation page and failed
ContinuationFailed(u) ==
    /\ Len(u.calls) >= 2
    /\ LET call == ApiCall(u.pid[1], u.calls[Len(u.calls)])
       IN  call.raised \/ call.page = None

\* C10: a unit that is over, whose fetch of a continuation page failed when it
\* had songs of the earlier pages, has written those songs to its artifact.
C10_PartialWritten ==
    \A i \in UnitIds :
        (Finished(units[i]) /\ ContinuationFailed(units[i]) /\ HasSongs(units[i].songs_local)) =>
            /\ tasks[i].slug \in DOMAIN playlistDir
            /\ playlistDir[tasks[i].slug] = SongsText(units[i].songs_local)

\* the session.get calls a unit has made for its genre page
PageGets(u) == IF u.f = None THEN 0 ELSE u.f[1].gets

\* C11: in a call of scrape_playlists without the client id or secret the fatal
\* error is raised before the first genre-page fetch and before any artifact is
\* written, for every catalog.
C11_CredentialsBeforeWork ==
    (~creds /\ phase # "idle") =>
        /\ \A i \in UnitIds : PageGets(units[i]) = 0
        /\ playlistDir = startDir
        /\ Over => phase = "failed"

\* C12: the work list is, in catalog order, the first limit entries of the catalog
\* that have an href and no artifact when the call begins, all of them without a
\* limit; a skipped entry does not count, and limit = 0 gives the empty list.
C12_WorkList ==
    phase # "idle" =>
        LET Queued(g) == g.href # <<>> /\ SlugOf(g) \notin DOMAIN startDir
            all == SelectSeq(genres, Queued)
            n == IF limit = None \/ limit[1] > Len(all) THEN Len(all) ELSE limit[1]
        IN  /\ Len(tasks) = n
            /\ \A k \in 1..n : tasks[k].name = all[k].name /\ tasks[k].href = all[k].href
            /\ limit = Some(0) => tasks = <<>>

\* The limit cut the work list, and its last entry stands further down in the
\* catalog than in the work list: an entry before it was skipped and not counted.
C12_Witness ==
    /\ phase # "idle"
    /\ limit # None
    /\ limit[1] >= 1
    /\ Len(tasks) = limit[1]
    /\ \E m \in 1..Len(genres) :
           /\ m > Len(tasks)
           /\ genres[m].name = tasks[Len(tasks)].name
           /\ \E k \in (m + 1)..Len(genres) :
                  genres[k].href # <<>> /\ SlugOf(genres[k]) \notin DOMAIN startDir

\* backoff * (2^0 + ... + 2^(n-1))
RECURSIVE Waited(_, _)
Waited(backoff, n) == IF n = 0 THEN 0 ELSE Waited(backoff, n - 1) + backoff * 2 ^ (n - 1)

\* C16: fetch_url has waited backoff * 2^k after its failed attempt number k (from
\* 0), the last one included: 1, 2 and 4 with the defaults, and
\* backoff * (2^retries - 1) in all when every attempt failed.
C16_Backoff ==
    fc # None =>
        LET f == fc[1]
            failed == f.gets - (IF f.result # None THEN 1 ELSE 0)
        IN  /\ f.slept = Waited(f.backoff, failed)
            /\ (f.returned /\ f.result = None /\ f.retries > 0) =>
                   /\ failed = f.retries
                   /\ f.slept = f.backoff * (2 ^ f.retries - 1)
            /\ (f.retries = DefaultRetries /\ f.backoff = DefaultBackoff) =>
                   f.slept \in {0, 1, 1 + 2, 1 + 2 + 4}

\* The default call has failed three times and returned None after 1 + 2 + 4.
C16_Witness ==
    /\ fc # None
    /\ fc[1].retries = DefaultRetries
    /\ fc[1].backoff = DefaultBackoff
    /\ fc[1].returned
    /\ fc[1].result = None
    /\ fc[1].gets = 3
    /\ fc[1].slept = 7

\* The site and the API give the unit of the task a failure signal at its start:
\* no page, a page without playlist link, or an error of the initial playlist fetch.
StartSignal(task) ==
    LET url == page_url(task.href)
        f == FetchRun(FetchCall(Web(url).script, Web(url).anchors, DefaultRetries, DefaultBackoff))
        id == IF f.result = None THEN None ELSE get_playlist_id_from_genre_page(f.result[1])
    IN  \/ f.result = None
        \/ id = None
        \/ creds /\ ApiCall(id[1], 1).raised

\* C17: a unit whose page fetch gives None, whose page has no playlist link or
\* whose initial playlist fetch raises returns without having collected or written
\* anything; its genre has no artifact (when no other unit has its slug); the unit
\* after it may start; and the call does not fail because of it.
C17_StartFailureIsolated ==
    /\ \A i \in UnitIds :
           StartSignal(tasks[i]) =>
               /\ units[i].pc \in {"queued", "fetch", "resolve", "connect", "returned"}
               /\ units[i].songs_local = <<>>
               /\ (Finished(units[i]) /\ \A j \in UnitIds : j # i => tasks[j].slug # tasks[i].slug) =>
                      tasks[i].slug \notin DOMAIN playlistDir
               /\ ( /\ phase = "running"
                    /\ units[i].pc = "returned"
                    /\ i < Len(units)
                    /\ units[i + 1].pc = "queued"
                    /\ \A j \in 1..(i - 1) : units[j].pc = "returned" ) => MayStart(i + 1)
    /\ phase = "failed" =>
           \E i \in UnitIds : units[i].pc = "raised" /\ ~StartSignal(tasks[i])
    /\ (Over /\ \A i \in UnitIds : StartSignal(tasks[i])) =>
           (phase = "done" /\ \A i \in UnitIds : units[i].pc = "returned")

\* The call is over and did not fail: the initial playlist fetch of a unit raised,
\* and a unit after it wrote its artifact.
C17_Witness ==
    /\ phase = "done"
    /\ \E i \in UnitIds :
           /\ units[i].pc = "returned"
           /\ units[i].calls = <<1>>
           /\ ApiCall(units[i].pid[1], 1).raised
           /\ \E j \in UnitIds :
                  /\ j > i
                  /\ HasSongs(units[j].songs_local)
                  /\ tasks[j].slug \in DOMAIN playlistDir
                  /\ playlistDir[tasks[j].slug] = SongsText(units[j].songs_local)

\* the pages the unit has got from the API
PagesFetched(u) ==
    Cardinality({k \in 1..Len(u.calls) : ApiCall(u.pid[1], u.calls[k]).page # None})

\* C18 as the spec has it: a unit that writes its artifact has reached the page
\* without continuation and writes the accepted records of all the pages of the
\* playlist, never a proper prefix of them.
C18_ArtifactComplete ==
    \A i \in UnitIds :
        (units[i].pc = "write" /\ HasSongs(units[i].songs_local)) =>
            LET chain == PlaylistOf(units[i].pid[1]).chain
            IN  /\ units[i].pl_page # None
                /\ units[i].pl_page[1].next = None
                /\ units[i].songs_local = AcceptedUpTo(chain, Len(chain))

\* C18: every change of PLAYLIST_DIR is the open or the one write of a unit, made
\* when its loop has ended, and what the unit writes is the text of the accepted
\* records of the pages it has fetched: of all the pages of the playlist, or of the
\* pages before a continuation fetch that returned no page; and a unit that has
\* returned does nothing more.
C18_ArtifactOfFetchedPages ==
    [][ /\ playlistDir' # playlistDir =>
               \E i \in UnitIds :
                   LET u == units[i]
                       chain == PlaylistOf(u.pid[1]).chain
                       n == PagesFetched(u)
                   IN  /\ \/ /\ u.pc = "write"
                             /\ units'[i].pc = "save"
                             /\ playlistDir' = Truncate(playlistDir, tasks[i].slug)
                          \/ /\ u.pc = "save"
                             /\ units'[i].pc = "returned"
                             /\ playlistDir' = Flush(playlistDir, tasks[i].slug,
                                                     SongsText(AcceptedUpTo(chain, n)))
                       /\ u.songs_local = AcceptedUpTo(chain, n)
                       /\ n >= 1
                       /\ \/ n = Len(chain) /\ u.pl_page # None /\ u.pl_page[1].next = None
                          \/ /\ n < Len(chain)
                             /\ u.pl_page = None
                             /\ ~ApiCall(u.pid[1], n + 1).raised
        /\ \A i \in UnitIds :
               (units[i].pc = "returned" /\ run' = run) => units'[i] = units[i] ]_vars

\* A unit wrote the songs of the first page of a playlist of two pages: the fetch
\* of the second returned no page.
C18_Witness ==
    \E i \in UnitIds :
        /\ units[i].pc = "returned"
        /\ Len(units[i].calls) = 2
        /\ PagesFetched(units[i]) = 1
        /\ units[i].pl_page = None
        /\ HasSongs(units[i].songs_local)
        /\ tasks[i].slug \in DOMAIN playlistDir
        /\ playlistDir[tasks[i].slug] = SongsText(units[i].songs_local)
        /\ units[i].songs_local # AcceptedUpTo(PlaylistOf(units[i].pid[1]).chain, 2)

\* C19: in debug mode, when the harvest of a unit that fetched P pages and has songs
\* is over, <slug>_page1 ... <slug>_pageP exist and <slug>_pageN holds the page
\* number N of this harvest, whatever DEBUG_DIR held before.
C19_DebugPages ==
    debug =>
        \A i \in UnitIds :
            (units[i].pc = "write" /\ HasSongs(units[i].songs_local)) =>
                \A n \in 1..PagesFetched(units[i]) :
                    /\ <<tasks[i].slug, n>> \in DOMAIN debugDir
                    /\ debugDir[<<tasks[i].slug, n>>] = PageText(Some(PageAt(units[i].pid[1], n)))

\* C13: a genre whose artifact exists in OUTPUT_DIR when a call of process_genres
\* begins is not fetched in that call, and its artifact keeps its content.
C13_SongsResume ==
    (pg # None /\ pg[1].pc \notin {"idle", "renamed"}) =>
        \A k \in 1..Len(genres) :
            SlugOf(genres[k]) \in DOMAIN pg[1].start =>
                /\ pg[1].gets[k] = 0
                /\ SlugOf(genres[k]) \in DOMAIN pg[1].dir
                /\ pg[1].dir[SlugOf(genres[k])] = pg[1].start[SlugOf(genres[k])]

\* the calls of a function kept in pure
CallsOf(fn) == {c \in 1..Len(pure) : pure[c].fn = fn}

\* the bubbles of a snapshot that have a name
Named(doc) == {k \in 1..Len(doc) : extract_genre_name(doc[k]) # <<>>}

\* C14 as the spec has it: parse_file returns a catalog of N entries for a snapshot
\* of N bubbles with a name, bubbles of the same name included.
C14_OneEntryPerBubble ==
    \A c \in CallsOf("parse_file") :
        ~pure[c].out.raised =>
            Len(pure[c].out.genres) = Cardinality(Named(pure[c].snapshot[1]))

\* C14: parse_file returns one entry for every distinct name of the bubbles of the
\* snapshot, with the data of the last bubble of that name: N entries for N named
\* bubbles when their names are pairwise distinct, fewer when a name comes twice.
C14_OneEntryPerName ==
    \A c \in CallsOf("parse_file") :
        ~pure[c].out.raised =>
            LET doc == pure[c].snapshot[1]
                out == pure[c].out.genres
                names == {extract_genre_name(doc[k]) : k \in Named(doc)}
                Last(name) == CHOOSE k \in Named(doc) :
                                  /\ extract_genre_name(doc[k]) = name
                                  /\ \A m \in Named(doc) :
                                         extract_genre_name(doc[m]) = name => m <= k
            IN  /\ Len(out) = Cardinality(names)
                /\ {out[e].name : e \in 1..Len(out)} = names
                /\ \A e \in 1..Len(out) : out[e].data = BubbleData(doc[Last(out[e].name)])
                /\ Cardinality(names) = Cardinality(Named(doc)) =>
                       Len(out) = Cardinality(Named(doc))

\* parse_file was called on a snapshot of three named bubbles, two of one name, and
\* returned two entries.
C14_Witness ==
    \E c \in CallsOf("parse_file") :
        /\ ~pure[c].out.raised
        /\ Cardinality(Named(pure[c].snapshot[1])) = 3
        /\ Len(pure[c].out.genres) = 2

\* C15 as the spec has it: two calls of slug_from_href with the same href return
\* the same slug.
C15_SlugFromHrefOnly ==
    \A a, b \in CallsOf("slug_from_href") :
        pure[a].href = pure[b].href => pure[a].out = pure[b].out

\* the href holds engenremap-<id>.html
HasMapId(href) == \E i, j \in 1..Len(href) : SlugMatchAt(href, i, j)

\* C15: two calls of slug_from_href with the same href and the same genre name
\* return the same slug, and so do two calls with the same href and different
\* names when the href holds a map id.
C15_SlugFromHrefAndName ==
    \A a, b \in CallsOf("slug_from_href") :
        ( /\ pure[a].href = pure[b].href
          /\ pure[a].name = pure[b].name \/ HasMapId(pure[a].href) ) =>
            pure[a].out = pure[b].out

\* Two calls with the href of a map id and two names returned the same slug.
C15_Witness ==
    \E a, b \in CallsOf("slug_from_href") :
        /\ pure[a].href = pure[b].href
        /\ pure[a].name # pure[b].name
        /\ HasMapId(pure[a].href)
        /\ pure[a].out = pure[b].out
        /\ pure[a].out # sanitize_filename(pure[a].name)

\* a colour of six hexadecimal digits
Hex6(v) == Len(v) = HexLen + 1 /\ v[1] = "#" /\ \A k \in 2..Len(v) : v[k] \in HexDigits

\* the declarations of a property that give such a colour
ColoursOf(decls, prop) ==
    {k \in 1..Len(decls) : LowerStr(Strip(decls[k].prop)) = prop /\ Hex6(Strip(decls[k].value))}

\* C20: for a style with a background-color and a color declaration of six
\* hexadecimal digits each, _parse_style returns the background colour in lower
\* case, whatever the order of the two.
C20_BackgroundPreferred ==
    \A c \in CallsOf("_parse_style") :
        LET bg == ColoursOf(pure[c].decls, BackgroundColor)
            fg == ColoursOf(pure[c].decls, ForeColor)
        IN  (bg # {} /\ fg # {}) =>
                pure[c].out.color = Some(LowerStr(Strip(pure[c].decls[Min(bg)].value)))


\* the title starts with the marker e.g. and the space that separates it from the
\* rest
Marked(title) ==
    /\ Len(title) > Len(EgMarker)
    /\ StartsWith(LowerStr(title), EgMarker)
    /\ title[Len(EgMarker) + 1] = " "

\* the text after the marker and its separating space
Remainder(title) == SubSeq(title, Len(EgMarker) + 2, Len(title))

\* the text has a quoted segment: two quotes at least
Quoted(s) == Cardinality({k \in 1..Len(s) : s[k] = "\""}) >= 2

\* C21: for a title that starts with the marker e.g. and whose remainder has no
\* quoted segment, parse_song_title returns that remainder unchanged, also when
\* the remainder begins with dots.
C21_RemainderUnchanged ==
    \A c \in CallsOf("parse_song_title") :
        (Marked(pure[c].title) /\ ~Quoted(Remainder(pure[c].title))) =>
            pure[c].out = Remainder(pure[c].title)

====
